---------------------------- MODULE Spec2Model ----------------------------
(***************************************************************************)
(* Hamster Run: the game state store (components/game/GameManager.ts), the *)
(* one-shot timers it schedules with setTimeout, and the components that   *)
(* drive it: the Player, the obstacles and the Game page.                  *)
(*                                                                         *)
(* Numbers.  Speeds are held as integers in units of 1/10000, so that      *)
(* 0.12 is 1200, 0.003 is 30, 0.4 is 4000 and 0.6 is 6000; every base      *)
(* speed the store produces is 1200 + 30k or 4000, so baseSpeed * 1.8 is   *)
(* an integer in these units.  Times are in milliseconds.                  *)
(*                                                                         *)
(* Timers.  The host runs one callback at a time; a pending setTimeout is  *)
(* a record of `timers', kept in the order the calls were made.  Time      *)
(* passes in steps of the shortest delay the store schedules (ShakeMs),    *)
(* never past a due timer; due timers run in the order they were set.      *)
(*                                                                         *)
(* Callers.  useGameStore is exported and none of its operations tests     *)
(* status, so each operation is an action that may be taken in any state,  *)
(* between any two callbacks.  The store is modelled in the browser        *)
(* (typeof window !== 'undefined'), where the game runs.  Spec, SpecApp    *)
(* and SpecSpeed follow the store alone; SpecGame, SpecInput, SpecMagnet   *)
(* and FairGame follow the page: positions are in units of 1/10000.        *)
(* The later specifications each follow one scene of the page; SpecAudio   *)
(* follows the music of components/game/AudioManager.                      *)
(***************************************************************************)
EXTENDS Integers, Sequences, FiniteSets, TLC

VARIABLES
    status,        \* GameState.status: "idle" | "playing" | "gameover"
    score,         \* GameState.score
    speed,         \* GameState.speed       (1/10000)
    baseSpeed,     \* GameState.baseSpeed   (1/10000)
    playerLane,    \* GameState.playerLane
    isJumping,     \* GameState.isJumping
    screenShake,   \* GameState.screenShake
    highScore,     \* GameState.highScore
    boostActive,   \* GameState.boostActive
    magnetActive,  \* GameState.magnetActive
    timers,        \* pending setTimeout callbacks, in scheduling order
    stored,        \* localStorage item 'hamsterHighScore': NoItem or Item(text)
    lastOp,        \* history: the store operation or timer that ran last
    player,        \* Player: laneIndex and isJumping state, jumpStartTime ref
    shown,         \* Player: the laneIndex and isJumping of its last render
    items,         \* ObstacleManager items, each with its position and flag
    spawner,       \* ObstacleManager refs: nextSpawnTime, spawnCount
    frame,         \* the frame callback in progress, or NoFrame
    sinceFrame,    \* ms since the last frame: the next frame's delta
    speedUpIn,     \* ms until Game's speed-up interval fires, or Off
    audio          \* audioController's fields and useAudio's prevStatus ref

session == <<status, score, speed, baseSpeed, playerLane, isJumping,
             screenShake, highScore, boostActive, magnetActive>>

\* the state of the components around the store
gvars == <<player, shown, items, spawner, frame, sinceFrame, speedUpIn,
           audio>>

vars == <<status, score, speed, baseSpeed, playerLane, isJumping,
          screenShake, highScore, boostActive, magnetActive,
          timers, stored, lastOp,
          player, shown, items, spawner, frame, sinceFrame, speedUpIn,
          audio>>

-----------------------------------------------------------------------------
(* Bounds of the exploration. *)

\* longest durationMs handed to activateBoost/activateMagnet, in ShakeMs steps
MaxDur == 2
\* most setTimeout callbacks pending at once
MaxTimers == 2
\* highest score explored
MaxScore == 1
\* highest high score found in storage at construction
MaxStored == 1
\* most increaseSpeed calls per run under Spec (SpecSpeed runs to the clamp)
MaxSpeedUps == 1
\* most setTimeout callbacks pending at once under SpecSpeed
MaxTimersSpeed == 2
\* most entities spawned under SpecGame
MaxSpawns == 1
\* most entities spawned under SpecMagnet
MaxSpawnsMagnet == 2
\* longest frame delta, in FrameMs steps
MaxDelta == 1
\* most entities spawned under SpecPace
MaxSpawnsPace == 10
\* longest frame delta under SpecSlow, in FrameMs steps
MaxDeltaSlow == 3
\* most entities spawned under SpecCrowd
MaxSpawnsCrowd == 3

-----------------------------------------------------------------------------
(* Program constants. *)

InitialSpeed == 1200
SpeedStep == 30
MaxBaseSpeed == 4000
MaxSpeed == 6000
BoostTenths == 18
ShakeMs == 500

\* Obstacles and Player (z positions in units of 1/10000, times in ms)
SPAWN_DISTANCE == 0 - 600000
DESPAWN_DISTANCE == 80000
COLLISION_THRESHOLD_Z == 10000
JUMP_DURATION == 450
BoostMs == 4000
MagnetMs == 8000
SpeedUpMs == 5000
CoinAward == 5
ChillyAward == 2
MagnetAward == 3
GapBaseMs == 1500
SpeedUpEvery == 10

Lanes == {0, 1, 2}
Amounts == {1, 2, 3, 5}
Durations == {k * ShakeMs : k \in 1..MaxDur}

Min(a, b) == IF a <= b THEN a ELSE b
Max(a, b) == IF a >= b THEN a ELSE b

-----------------------------------------------------------------------------
(* localStorage holds strings: String(n) writes the decimal digits of n,   *)
(* parseInt reads the longest prefix of digits and yields NaN on none.     *)

\* getItem yields null for a key that was never set
NoItem == [has |-> FALSE, text |-> <<>>]
Item(s) == [has |-> TRUE, text |-> s]
\* NaN is held as a value no score takes
NaN == 0 - 1
Digits == <<"0", "1", "2", "3", "4", "5", "6", "7", "8", "9">>

\* String(n); String(NaN) is "NaN"
RECURSIVE StringOf(_)
StringOf(n) ==
    IF n = NaN THEN <<"N", "a", "N">>
    ELSE IF n < 10 THEN <<Digits[n + 1]>>
    ELSE Append(StringOf(n \div 10), Digits[(n % 10) + 1])

DigitValue(c) == CHOOSE d \in 0..9 : Digits[d + 1] = c
IsDigit(c) == \E d \in 0..9 : Digits[d + 1] = c

RECURSIVE ParseDigits(_, _, _)
ParseDigits(s, i, acc) ==
    IF i > Len(s) \/ ~IsDigit(s[i]) THEN acc
    ELSE ParseDigits(s, i + 1, acc * 10 + DigitValue(s[i]))

ParseInt(s) ==
    IF Len(s) = 0 \/ ~IsDigit(s[1]) THEN NaN ELSE ParseDigits(s, 1, 0)

\* localStorage.getItem('hamsterHighScore') || '0'
StoredOrZero ==
    IF ~stored.has \/ stored.text = <<>> THEN <<"0">> ELSE stored.text

StoredAtStart == {NoItem} \cup {Item(StringOf(n)) : n \in 0..MaxStored}

\* what else the item may hold at construction: written by another page of
\* the origin, by hand, or by an earlier session of this page
StoredOtherwise ==
    {Item(<<>>), Item(<<"a">>), Item(<<"1", "a">>), Item(<<"N", "a", "N">>)}

\* Math.max: NaN if either argument is NaN
MathMax(a, b) == IF a = NaN \/ b = NaN THEN NaN ELSE Max(a, b)

-----------------------------------------------------------------------------
(* Timers. *)

Timer(kind, ms) == [kind |-> kind, rem |-> ms, old |-> FALSE]

\* history: a timer pending when a run begins was scheduled before that run
MarkOld(ts) == [i \in 1..Len(ts) |-> [ts[i] EXCEPT !.old = TRUE]]

Remove(ts, i) == SubSeq(ts, 1, i - 1) \o SubSeq(ts, i + 1, Len(ts))

\* the timer the host runs next: the first one that is due
Due(i) ==
    /\ i \in 1..Len(timers)
    /\ timers[i].rem = 0
    /\ \A j \in 1..(i - 1) : timers[j].rem > 0

Pending(kind) == {i \in 1..Len(timers) : timers[i].kind = kind}

-----------------------------------------------------------------------------
(* The boosted speed: Math.min(baseSpeed * 1.8, 0.6). *)

\* a faulty boost: the product is not capped at 0.6
BoostedUncapped(b) == (b * BoostTenths) \div 10

Boosted(b) == Min((b * BoostTenths) \div 10, MaxSpeed)

-----------------------------------------------------------------------------
(* The components around the store.  Time passes in steps of FrameMs; a   *)
(* frame's delta is the time since the frame before it.                   *)

FrameMs == ShakeMs \div 4

\* Date.now() - jumpStartTime.current is followed up to the first step at
\* which the jump is over
JumpCap == ((JUMP_DURATION + FrameMs - 1) \div FrameMs) * FrameMs

\* no setInterval is pending
Off == 0 - 1

Types == {"rock", "chilly", "coin", "magnet"}

\* Math.random() in the spawn gap, in thousandths
GapDraws == {0, 500}

\* no frame callback is running
NoFrame == [at |-> 0, last |-> 0, delta |-> 0, speed |-> 0,
            magnetActive |-> FALSE, award |-> 0]

-----------------------------------------------------------------------------
\* the store and the components as constructed, the item among `found'
InitFrom(found) ==
    /\ status = "idle"
    /\ score = 0
    /\ speed = InitialSpeed
    /\ baseSpeed = InitialSpeed
    /\ playerLane = 1
    /\ isJumping = FALSE
    /\ screenShake = FALSE
    /\ stored \in found
    /\ highScore = ParseInt(StoredOrZero)
    /\ boostActive = FALSE
    /\ magnetActive = FALSE
    /\ timers = <<>>
    /\ lastOp = "create"
    /\ player = [laneIndex |-> 1, isJumping |-> FALSE, sinceJump |-> JumpCap]
    /\ shown = [laneIndex |-> 1, isJumping |-> FALSE]
    /\ items = <<>>
    /\ spawner = [nextSpawnTime |-> 0, spawnCount |-> 0]
    /\ frame = NoFrame
    /\ sinceFrame = 0
    /\ speedUpIn = Off

\* audioController after init(), with or without an AudioContext, and
\* useAudio's prevStatus ref
Mounted(context) ==
    [muted |-> FALSE, ac |-> context, beatTimer |-> 0, live |-> {},
     prevStatus |-> "idle"]

Init == InitFrom(StoredAtStart) /\ audio = Mounted(TRUE)

\* the state both startGame and restartGame set
FreshRun ==
    /\ status' = "playing"
    /\ score' = 0
    /\ speed' = InitialSpeed
    /\ baseSpeed' = InitialSpeed
    /\ playerLane' = 1
    /\ isJumping' = FALSE
    /\ screenShake' = FALSE
    /\ boostActive' = FALSE
    /\ magnetActive' = FALSE
    /\ timers' = MarkOld(timers)
    /\ UNCHANGED <<highScore, stored>>

\* a faulty startGame: it clears the high score with the rest
StartGameClearsHigh ==
    /\ status' = "playing"
    /\ score' = 0
    /\ speed' = InitialSpeed
    /\ baseSpeed' = InitialSpeed
    /\ playerLane' = 1
    /\ isJumping' = FALSE
    /\ screenShake' = FALSE
    /\ boostActive' = FALSE
    /\ magnetActive' = FALSE
    /\ highScore' = 0
    /\ timers' = MarkOld(timers)
    /\ lastOp' = "startGame"
    /\ UNCHANGED stored

StartGame ==
    /\ FreshRun
    /\ lastOp' = "startGame"

\* a faulty restartGame: it keeps the speed the last run had reached
RestartKeepsSpeed ==
    /\ status' = "playing"
    /\ score' = 0
    /\ speed' = baseSpeed
    /\ playerLane' = 1
    /\ isJumping' = FALSE
    /\ screenShake' = FALSE
    /\ boostActive' = FALSE
    /\ magnetActive' = FALSE
    /\ timers' = MarkOld(timers)
    /\ lastOp' = "restartGame"
    /\ UNCHANGED <<baseSpeed, highScore, stored>>

RestartGame ==
    /\ FreshRun
    /\ lastOp' = "restartGame"

NewHighScore == MathMax(score, highScore)

\* a faulty endGame: it goes back to the start screen
EndGameToIdle ==
    /\ stored' = Item(StringOf(NewHighScore))
    /\ status' = "idle"
    /\ speed' = 0
    /\ highScore' = NewHighScore
    /\ screenShake' = TRUE
    /\ timers' = Append(timers, Timer("shake", ShakeMs))
    /\ lastOp' = "endGame"
    /\ UNCHANGED <<score, baseSpeed, playerLane, isJumping, boostActive,
                   magnetActive>>

EndGame ==
    /\ stored' = Item(StringOf(NewHighScore))
    /\ status' = "gameover"
    /\ speed' = 0
    /\ highScore' = NewHighScore
    /\ screenShake' = TRUE
    /\ timers' = Append(timers, Timer("shake", ShakeMs))
    /\ lastOp' = "endGame"
    /\ UNCHANGED <<score, baseSpeed, playerLane, isJumping, boostActive,
                   magnetActive>>

\* a faulty incrementScore: the amount is taken off
IncrementScoreDown(amount) ==
    /\ score' = score - amount
    /\ lastOp' = "incrementScore"
    /\ UNCHANGED <<status, speed, baseSpeed, playerLane, isJumping,
                   screenShake, highScore, boostActive, magnetActive,
                   timers, stored>>

IncrementScore(amount) ==
    /\ score' = score + amount
    /\ lastOp' = "incrementScore"
    /\ UNCHANGED <<status, speed, baseSpeed, playerLane, isJumping,
                   screenShake, highScore, boostActive, magnetActive,
                   timers, stored>>

\* a faulty increaseSpeed: the base speed grows without the clamp at 0.4
NextBaseSpeedUnclamped(b) == b + SpeedStep

NextBaseSpeed(b) == Min(b + SpeedStep, MaxBaseSpeed)

\* a variant increaseSpeed: speed is computed from the raised base speed
SpeedFromRaisedBase(b, boost) ==
    Min(IF boost THEN (Min(b + SpeedStep, MaxBaseSpeed) * BoostTenths) \div 10
        ELSE Min(b + SpeedStep, MaxBaseSpeed), MaxSpeed)

\* speed is computed from state.baseSpeed, the base speed before this call
SpeedAfterIncrease(b, boost) ==
    Min(IF boost THEN (b * BoostTenths) \div 10 ELSE b, MaxSpeed)

IncreaseSpeed ==
    /\ baseSpeed' = NextBaseSpeed(baseSpeed)
    /\ speed' = SpeedAfterIncrease(baseSpeed, boostActive)
    /\ lastOp' = "increaseSpeed"
    /\ UNCHANGED <<status, score, playerLane, isJumping, screenShake,
                   highScore, boostActive, magnetActive, timers, stored>>

SetPlayerState(lane, jumping) ==
    /\ playerLane' = lane
    /\ isJumping' = jumping
    /\ lastOp' = "setPlayerState"
    /\ UNCHANGED <<status, score, speed, baseSpeed, screenShake, highScore,
                   boostActive, magnetActive, timers, stored>>

TriggerScreenShake ==
    /\ screenShake' = TRUE
    /\ timers' = Append(timers, Timer("shake", ShakeMs))
    /\ lastOp' = "triggerScreenShake"
    /\ UNCHANGED <<status, score, speed, baseSpeed, playerLane, isJumping,
                   highScore, boostActive, magnetActive, stored>>

ActivateBoost(durationMs) ==
    /\ boostActive' = TRUE
    /\ speed' = Boosted(baseSpeed)
    /\ timers' = Append(timers, Timer("boost", durationMs))
    /\ lastOp' = "activateBoost"
    /\ UNCHANGED <<status, score, baseSpeed, playerLane, isJumping,
                   screenShake, highScore, magnetActive, stored>>

ActivateMagnet(durationMs) ==
    /\ magnetActive' = TRUE
    /\ timers' = Append(timers, Timer("magnet", durationMs))
    /\ lastOp' = "activateMagnet"
    /\ UNCHANGED <<status, score, speed, baseSpeed, playerLane, isJumping,
                   screenShake, highScore, boostActive, stored>>

-----------------------------------------------------------------------------
(* The setTimeout callbacks. *)

\* a faulty deactivation: it restores the starting speed, as startGame does
SpeedAfterBoostInitial(b) == InitialSpeed

\* the speed the boost's deactivation sets: get().baseSpeed when it runs
SpeedAfterBoost(b) == b

\* a faulty deactivation: it sets the run going again with the speed
BoostExpireResumes(i) ==
    /\ Due(i)
    /\ timers[i].kind = "boost"
    /\ boostActive' = FALSE
    /\ speed' = baseSpeed
    /\ status' = "playing"
    /\ timers' = Remove(timers, i)
    /\ lastOp' = "boostExpire"
    /\ UNCHANGED <<score, baseSpeed, playerLane, isJumping,
                   screenShake, highScore, magnetActive, stored>>

\* a faulty boost timer: boostActive is left as it is
BoostExpireKeeps(i) ==
    /\ Due(i)
    /\ timers[i].kind = "boost"
    /\ boostActive' = boostActive
    /\ speed' = SpeedAfterBoost(baseSpeed)
    /\ timers' = Remove(timers, i)
    /\ lastOp' = "boostExpire"
    /\ UNCHANGED <<status, score, baseSpeed, playerLane, isJumping,
                   screenShake, highScore, magnetActive, stored>>

BoostExpire(i) ==
    /\ Due(i)
    /\ timers[i].kind = "boost"
    /\ boostActive' = FALSE
    /\ speed' = SpeedAfterBoost(baseSpeed)
    /\ timers' = Remove(timers, i)
    /\ lastOp' = "boostExpire"
    /\ UNCHANGED <<status, score, baseSpeed, playerLane, isJumping,
                   screenShake, highScore, magnetActive, stored>>

MagnetExpire(i) ==
    /\ Due(i)
    /\ timers[i].kind = "magnet"
    /\ magnetActive' = FALSE
    /\ timers' = Remove(timers, i)
    /\ lastOp' = "magnetExpire"
    /\ UNCHANGED <<status, score, speed, baseSpeed, playerLane, isJumping,
                   screenShake, highScore, boostActive, stored>>

ShakeExpire(i) ==
    /\ Due(i)
    /\ timers[i].kind = "shake"
    /\ screenShake' = FALSE
    /\ timers' = Remove(timers, i)
    /\ lastOp' = "shakeExpire"
    /\ UNCHANGED <<status, score, speed, baseSpeed, playerLane, isJumping,
                   highScore, boostActive, magnetActive, stored>>

\* ShakeMs of time passes; no pending timer is overdue
Tick ==
    /\ timers # <<>>
    /\ \A i \in 1..Len(timers) : timers[i].rem >= ShakeMs
    /\ timers' = [i \in 1..Len(timers) |->
                    [timers[i] EXCEPT !.rem = @ - ShakeMs]]
    /\ lastOp' = "tick"
    /\ UNCHANGED <<session, stored>>

-----------------------------------------------------------------------------
(* Spec: every store operation and callback, with a bounded number of     *)
(* pending timers and of speed-ups per run.                               *)

Room == Len(timers) < MaxTimers

MoreSpeedUps == baseSpeed < InitialSpeed + MaxSpeedUps * SpeedStep

Next ==
    \/ StartGame /\ UNCHANGED gvars
    \/ RestartGame /\ UNCHANGED gvars
    \/ Room /\ EndGame /\ UNCHANGED gvars
    \/ \E a \in Amounts : score + a <= MaxScore /\ IncrementScore(a) /\ UNCHANGED gvars
    \/ MoreSpeedUps /\ IncreaseSpeed /\ UNCHANGED gvars
    \/ Room /\ TriggerScreenShake /\ UNCHANGED gvars
    \/ \E d \in Durations : Room /\ ActivateBoost(d) /\ UNCHANGED gvars
    \/ \E d \in Durations : Room /\ ActivateMagnet(d) /\ UNCHANGED gvars
    \/ \E i \in 1..Len(timers) : BoostExpire(i) /\ UNCHANGED gvars
    \/ \E i \in 1..Len(timers) : MagnetExpire(i) /\ UNCHANGED gvars
    \/ \E i \in 1..Len(timers) : ShakeExpire(i) /\ UNCHANGED gvars
    \/ Tick /\ UNCHANGED gvars

Spec == Init /\ [][Next]_vars

-----------------------------------------------------------------------------
(* SpecApp: the store driven the way the game's components drive it.  The *)
(* START button is rendered in Idle and TRY AGAIN in GameOver; the         *)
(* obstacle frame callbacks (endGame, incrementScore, activateBoost,      *)
(* activateMagnet), the spawner and the speed-up interval (increaseSpeed) *)
(* act only while status is Playing.  Timers run whatever the status.     *)

StartShown == status = "idle"
RetryShown == status = "gameover"
FrameActive == status = "playing"

NextApp ==
    \/ StartShown /\ StartGame /\ UNCHANGED gvars
    \/ RetryShown /\ RestartGame /\ UNCHANGED gvars
    \/ FrameActive /\ Room /\ EndGame /\ UNCHANGED gvars
    \/ \E a \in Amounts :
          FrameActive /\ score + a <= MaxScore /\ IncrementScore(a) /\ UNCHANGED gvars
    \/ FrameActive /\ MoreSpeedUps /\ IncreaseSpeed /\ UNCHANGED gvars
    \/ \E d \in Durations : FrameActive /\ Room /\ ActivateBoost(d) /\ UNCHANGED gvars
    \/ \E d \in Durations : FrameActive /\ Room /\ ActivateMagnet(d) /\ UNCHANGED gvars
    \/ \E i \in 1..Len(timers) : BoostExpire(i) /\ UNCHANGED gvars
    \/ \E i \in 1..Len(timers) : MagnetExpire(i) /\ UNCHANGED gvars
    \/ \E i \in 1..Len(timers) : ShakeExpire(i) /\ UNCHANGED gvars
    \/ Tick /\ UNCHANGED gvars

SpecApp == Init /\ [][NextApp]_vars

-----------------------------------------------------------------------------
(* SpecSpeed: the operations that write status, baseSpeed, speed or       *)
(* boostActive, with no bound on the speed-ups, so that baseSpeed runs    *)
(* from 0.12 up to its clamp and the boosted speed up to its own.         *)

RoomSpeed == Len(timers) < MaxTimersSpeed

NextSpeed ==
    \/ StartGame /\ UNCHANGED gvars
    \/ RestartGame /\ UNCHANGED gvars
    \/ RoomSpeed /\ EndGame /\ UNCHANGED gvars
    \/ IncreaseSpeed /\ UNCHANGED gvars
    \/ \E d \in Durations : RoomSpeed /\ ActivateBoost(d) /\ UNCHANGED gvars
    \/ \E i \in 1..Len(timers) : BoostExpire(i) /\ UNCHANGED gvars
    \/ \E i \in 1..Len(timers) : ShakeExpire(i) /\ UNCHANGED gvars
    \/ Tick /\ UNCHANGED gvars

SpecSpeed == Init /\ [][NextSpeed]_vars

-----------------------------------------------------------------------------
(* Player.tsx.  laneIndex and isJumping are React state: a handler or a    *)
(* frame callback queues the new value (player), and the component's       *)
(* closures keep the values of its last render (shown) until it renders    *)
(* again.  The store's own fields reach every component before the next    *)
(* task, the store being read through a synchronous subscription.          *)

BetweenFrames == frame.at = 0

\* the [status] effect: setLaneIndex(1); setIsJumping(false)
ResetPlayer == [player EXCEPT !.laneIndex = 1, !.isJumping = FALSE]

\* START: startGame(); Game's interval effect and Player's reset effect run
PressStart ==
    /\ BetweenFrames
    /\ StartShown
    /\ StartGame
    /\ player' = ResetPlayer
    /\ speedUpIn' = SpeedUpMs
    /\ UNCHANGED <<shown, items, spawner, frame, sinceFrame,
                   audio>>

\* a faulty TRY AGAIN: Game's interval effect does not run again
PressRetryNoInterval ==
    /\ BetweenFrames
    /\ RetryShown
    /\ RestartGame
    /\ player' = ResetPlayer
    /\ UNCHANGED <<shown, items, spawner, frame, sinceFrame, speedUpIn,
                   audio>>

\* a faulty TRY AGAIN: the track is cleared and the spawner starts over
PressRetryClears ==
    /\ BetweenFrames
    /\ RetryShown
    /\ RestartGame
    /\ player' = ResetPlayer
    /\ speedUpIn' = SpeedUpMs
    /\ items' = <<>>
    /\ spawner' = [nextSpawnTime |-> 0, spawnCount |-> 0]
    /\ UNCHANGED <<shown, frame, sinceFrame,
                   audio>>

\* TRY AGAIN: restartGame(); the same two effects run
PressRetry ==
    /\ BetweenFrames
    /\ RetryShown
    /\ RestartGame
    /\ player' = ResetPlayer
    /\ speedUpIn' = SpeedUpMs
    /\ UNCHANGED <<shown, items, spawner, frame, sinceFrame,
                   audio>>

\* a faulty moveLeft: no clamp at lane 0
LaneLeftUnclamped(prev) == prev - 1

LaneLeft(prev) == Max(0, prev - 1)
LaneRight(prev) == Min(Cardinality(Lanes) - 1, prev + 1)

\* a faulty guard: the handlers act whatever the status
AlwaysPlaying == TRUE

\* status === 'playing' in the handlers' and callbacks' closures
InputActive == status = "playing"

MoveLeft ==
    /\ BetweenFrames
    /\ player' = IF InputActive
                 THEN [player EXCEPT !.laneIndex = LaneLeft(@)]
                 ELSE player
    /\ UNCHANGED <<session, timers, stored, lastOp, shown, items, spawner,
                   frame, sinceFrame, speedUpIn,
                   audio>>

MoveRight ==
    /\ BetweenFrames
    /\ player' = IF InputActive
                 THEN [player EXCEPT !.laneIndex = LaneRight(@)]
                 ELSE player
    /\ UNCHANGED <<session, timers, stored, lastOp, shown, items, spawner,
                   frame, sinceFrame, speedUpIn,
                   audio>>

\* jump reads isJumping from the closure of the last render
Jump ==
    /\ BetweenFrames
    /\ player' = IF ~shown.isJumping /\ InputActive
                 THEN [player EXCEPT !.isJumping = TRUE, !.sinceJump = 0]
                 ELSE player
    /\ UNCHANGED <<session, timers, stored, lastOp, shown, items, spawner,
                   frame, sinceFrame, speedUpIn,
                   audio>>

RenderPending ==
    \/ player.laneIndex # shown.laneIndex
    \/ player.isJumping # shown.isJumping

\* Player renders with its queued state; the sync effect then runs
\* setPlayerState(laneIndex, isJumping)
PlayerRender ==
    /\ BetweenFrames
    /\ RenderPending
    /\ shown' = [laneIndex |-> player.laneIndex,
                 isJumping |-> player.isJumping]
    /\ SetPlayerState(player.laneIndex, player.isJumping)
    /\ UNCHANGED <<player, items, spawner, frame, sinceFrame, speedUpIn,
                   audio>>

\* the jump physics of Player's useFrame: the jump is over
JumpOver == shown.isJumping /\ player.sinceJump >= JUMP_DURATION

PlayerAfterFrame ==
    IF JumpOver THEN [player EXCEPT !.isJumping = FALSE] ELSE player

-----------------------------------------------------------------------------
(* Time. *)

\* FrameMs of time passes; no timer and no interval is overdue
Elapse ==
    /\ BetweenFrames
    /\ sinceFrame < MaxDelta * FrameMs
    /\ \A i \in 1..Len(timers) : timers[i].rem >= FrameMs
    /\ speedUpIn # 0
    /\ timers' = [i \in 1..Len(timers) |->
                    [timers[i] EXCEPT !.rem = @ - FrameMs]]
    /\ sinceFrame' = sinceFrame + FrameMs
    /\ speedUpIn' = IF speedUpIn = Off THEN Off ELSE speedUpIn - FrameMs
    /\ player' = [player EXCEPT !.sinceJump = Min(@ + FrameMs, JumpCap)]
    /\ UNCHANGED <<session, stored, lastOp, shown, items, spawner, frame,
                   audio>>

\* Game's setInterval callback; speed-ups past MaxSpeedUps are not followed
SpeedUpInterval ==
    /\ BetweenFrames
    /\ speedUpIn = 0
    /\ MoreSpeedUps
    /\ IncreaseSpeed
    /\ speedUpIn' = IF baseSpeed' < InitialSpeed + MaxSpeedUps * SpeedStep
                    THEN SpeedUpMs ELSE Off
    /\ UNCHANGED <<player, shown, items, spawner, frame, sinceFrame,
                   audio>>

-----------------------------------------------------------------------------
(* Obstacles (part_004).  A frame runs Player's callback, ObstacleManager's *)
(* and then one callback per mounted item, each with the store fields of   *)
(* the render before the frame.                                            *)

\* id stands for the UUID: the entity's number in spawning order
Entity(type, lane, id) ==
    [id |-> id, type |-> type, lane |-> lane, z |-> SPAWN_DISTANCE,
     collected |-> FALSE, gone |-> FALSE]

\* a faulty gap: multiplied by the speed ratio, so that it grows with speed
SpawnGapInverted(r, sp) ==
    ((GapBaseMs + (GapBaseMs * r) \div 1000) * sp) \div InitialSpeed

\* a faulty gap: the 1.5 s base is left out, the random part alone remains
SpawnGapShort(r, sp) ==
    (((GapBaseMs * r) \div 1000) * InitialSpeed) \div sp

\* (1.5 + Math.random() * 1.5) / (speed / 0.12), in ms
SpawnGap(r, sp) ==
    ((GapBaseMs + (GapBaseMs * r) \div 1000) * InitialSpeed) \div sp

\* a faulty frame: the item callbacks do not test status
FrameOverAnyStatus(n) ==
    IF n > 0
    THEN [at |-> 1, last |-> n, delta |-> sinceFrame, speed |-> speed,
          magnetActive |-> magnetActive, award |-> 0]
    ELSE NoFrame

\* the frame's item callbacks: the items mounted when the frame began
FrameOver(n) ==
    IF status = "playing" /\ n > 0
    THEN [at |-> 1, last |-> n, delta |-> sinceFrame, speed |-> speed,
          magnetActive |-> magnetActive, award |-> 0]
    ELSE NoFrame

\* a frame in which ObstacleManager spawns nothing; past cap spawns the
\* countdown is not followed
FramePlain(cap) ==
    /\ BetweenFrames
    /\ sinceFrame > 0
    /\ \/ status # "playing"
       \/ spawner.spawnCount >= cap
       \/ spawner.nextSpawnTime - sinceFrame > 0
    /\ player' = PlayerAfterFrame
    /\ IF status = "idle" /\ items # <<>>
       THEN items' = <<>> /\ spawner' = [spawner EXCEPT !.spawnCount = 0]
       ELSE /\ items' = items
            /\ spawner' = IF status = "playing"
                             /\ spawner.spawnCount < cap
                          THEN [spawner EXCEPT
                                  !.nextSpawnTime = @ - sinceFrame]
                          ELSE spawner
    /\ frame' = FrameOver(Len(items))
    /\ sinceFrame' = 0
    /\ UNCHANGED <<session, timers, stored, lastOp, shown, speedUpIn,
                   audio>>

\* a frame in which ObstacleManager's countdown runs out: spawn()
FrameSpawn(type, lane, r, cap) ==
    /\ BetweenFrames
    /\ sinceFrame > 0
    /\ status = "playing"
    /\ spawner.spawnCount < cap
    /\ spawner.nextSpawnTime - sinceFrame <= 0
    /\ player' = PlayerAfterFrame
    /\ items' = Append(items, Entity(type, lane, spawner.spawnCount + 1))
    /\ spawner' = [nextSpawnTime |-> IF spawner.spawnCount + 1 < cap
                                     THEN SpawnGap(r, speed) ELSE 0,
                   spawnCount |-> spawner.spawnCount + 1]
    /\ frame' = FrameOver(Len(items))
    /\ sinceFrame' = 0
    /\ IF (spawner.spawnCount + 1) % SpeedUpEvery = 0
       THEN IncreaseSpeed
       ELSE UNCHANGED <<session, timers, stored, lastOp>>
    /\ UNCHANGED <<shown, speedUpIn,
                   audio>>

\* a faulty move: the position is left where it is
MovedNowhere(z) == z

\* position.z += speed * 60 * delta
Moved(z) == z + (frame.speed * 60 * frame.delta) \div 1000

Abs(z) == IF z < 0 THEN 0 - z ELSE z

\* a faulty hit test: the lane is not compared
LaneMatchAny(it) == TRUE

LaneMatch(it) == it.lane = playerLane

WithinZ(z) == Abs(z) < COLLISION_THRESHOLD_Z

\* withinZ && (laneMatch || (magnetActive && data.type === 'coin'))
Hit(it) ==
    /\ WithinZ(Moved(it.z))
    /\ LaneMatch(it) \/ (frame.magnetActive /\ it.type = "coin")

\* a faulty despawn test: it reads the position before the move
DespawnsBeforeMove(it) == it.z > DESPAWN_DISTANCE

Despawns(it) == Moved(it.z) > DESPAWN_DISTANCE

\* the item callback about to run
Current == items[frame.at]

InItem == frame.at >= 1 /\ frame.at <= frame.last /\ frame.award = 0

\* a faulty rock branch: isJumping is not read
NeverJumping == FALSE

\* a faulty rock branch: the player counts as airborne throughout
AlwaysAirborne == TRUE

\* isJumping in the item's closure
Airborne == isJumping

\* a faulty hit test: a jump clears every type of entity
JumpClearsAny(it) == Airborne

\* if (data.type === 'rock') { if (!isJumping) ... }: no branch acts
JumpClears(it) == it.type = "rock" /\ Airborne

\* the branch of the hit test that acts, if any
Acts(it) ==
    /\ ~Despawns(it)
    /\ ~it.collected
    /\ Hit(it)
    /\ ~JumpClears(it)

\* a faulty callback: collected.current is never set
MovedItemsUnmarked(collect) ==
    [items EXCEPT ![frame.at] = [@ EXCEPT !.z = Moved(@)]]

MovedItems(collect) ==
    [items EXCEPT ![frame.at] =
        [@ EXCEPT !.z = Moved(@), !.collected = @ \/ collect]]

NextItem == [frame EXCEPT !.at = @ + 1]

\* a faulty callback: a hit that does not act still marks the entity
ItemPassDisarms ==
    /\ InItem
    /\ ~Despawns(Current)
    /\ ~Acts(Current)
    /\ items' = MovedItems(Hit(Current))
    /\ frame' = NextItem
    /\ UNCHANGED <<session, timers, stored, lastOp, player, shown, spawner,
                   sinceFrame, speedUpIn,
                   audio>>

\* the item moves and nothing else happens
ItemPass ==
    /\ InItem
    /\ ~Despawns(Current)
    /\ ~Acts(Current)
    /\ items' = MovedItems(FALSE)
    /\ frame' = NextItem
    /\ UNCHANGED <<session, timers, stored, lastOp, player, shown, spawner,
                   sinceFrame, speedUpIn,
                   audio>>

\* the item is past the despawn distance: onRemove()
ItemDespawn ==
    /\ InItem
    /\ Despawns(Current)
    /\ items' = [items EXCEPT ![frame.at] =
                    [@ EXCEPT !.z = Moved(@), !.gone = TRUE]]
    /\ frame' = NextItem
    /\ UNCHANGED <<session, timers, stored, lastOp, player, shown, spawner,
                   sinceFrame, speedUpIn,
                   audio>>

\* rock: endGame(); Game's interval effect cleans up
ItemCrash ==
    /\ InItem
    /\ Acts(Current)
    /\ Current.type = "rock"
    /\ EndGame
    /\ items' = MovedItems(TRUE)
    /\ frame' = NextItem
    /\ speedUpIn' = Off
    /\ UNCHANGED <<player, shown, spawner, sinceFrame,
                   audio>>

\* coin: incrementScore(5)
ItemCoin ==
    /\ InItem
    /\ Acts(Current)
    /\ Current.type = "coin"
    /\ IncrementScore(CoinAward)
    /\ items' = MovedItems(TRUE)
    /\ frame' = NextItem
    /\ UNCHANGED <<player, shown, spawner, sinceFrame, speedUpIn,
                   audio>>

\* chilly: activateBoost(4000), then incrementScore(2) in ItemAward
ItemChilly ==
    /\ InItem
    /\ Acts(Current)
    /\ Current.type = "chilly"
    /\ ActivateBoost(BoostMs)
    /\ items' = MovedItems(TRUE)
    /\ frame' = [frame EXCEPT !.award = ChillyAward]
    /\ UNCHANGED <<player, shown, spawner, sinceFrame, speedUpIn,
                   audio>>

\* magnet: activateMagnet(8000), then incrementScore(3) in ItemAward
ItemMagnet ==
    /\ InItem
    /\ Acts(Current)
    /\ Current.type = "magnet"
    /\ ActivateMagnet(MagnetMs)
    /\ items' = MovedItems(TRUE)
    /\ frame' = [frame EXCEPT !.award = MagnetAward]
    /\ UNCHANGED <<player, shown, spawner, sinceFrame, speedUpIn,
                   audio>>

\* the second store call of the chilly and magnet branches
ItemAward ==
    /\ frame.award > 0
    /\ IncrementScore(frame.award)
    /\ frame' = [frame EXCEPT !.at = @ + 1, !.award = 0]
    /\ UNCHANGED <<player, shown, items, spawner, sinceFrame, speedUpIn,
                   audio>>

\* the frame is over; React drops the items onRemove() took out
FrameEnd ==
    /\ frame.at > frame.last
    /\ items' = SelectSeq(items, LAMBDA it : ~it.gone)
    /\ frame' = NoFrame
    /\ UNCHANGED <<session, timers, stored, lastOp, player, shown, spawner,
                   sinceFrame, speedUpIn,
                   audio>>

-----------------------------------------------------------------------------
(* SpecGame: the game as the page runs it, in a browser with no stored    *)
(* high score: buttons, input handlers, renders, frames, timers.          *)

InitGame == Init /\ stored = NoItem

\* React has rendered Player's queued state: under SpecGame it does so
\* before the next task runs
Settled == ~RenderPending

NextGame ==
    \/ Settled /\ PressStart
    \/ Settled /\ PressRetry
    \/ Settled /\ MoveLeft
    \/ Settled /\ MoveRight
    \/ Settled /\ Jump
    \/ PlayerRender
    \/ Settled /\ Elapse
    \/ Settled /\ SpeedUpInterval
    \/ Settled /\ FramePlain(MaxSpawns)
    \/ \E type \in Types, lane \in Lanes, r \in GapDraws :
          Settled /\ FrameSpawn(type, lane, r, MaxSpawns)
    \/ ItemPass
    \/ ItemDespawn
    \/ ItemCrash
    \/ ItemCoin
    \/ ItemChilly
    \/ ItemMagnet
    \/ ItemAward
    \/ FrameEnd
    \/ \E i \in 1..Len(timers) :
          BetweenFrames /\ Settled /\ BoostExpire(i) /\ UNCHANGED gvars
    \/ \E i \in 1..Len(timers) :
          BetweenFrames /\ Settled /\ MagnetExpire(i) /\ UNCHANGED gvars
    \/ \E i \in 1..Len(timers) :
          BetweenFrames /\ Settled /\ ShakeExpire(i) /\ UNCHANGED gvars

SpecGame == InitGame /\ [][NextGame]_vars

-----------------------------------------------------------------------------
(* SpecInput: the Player alone on an empty track, its render left to run  *)
(* whenever React's scheduler gets to it: any task may come first.        *)

NextInput ==
    \/ PressStart
    \/ MoveLeft
    \/ MoveRight
    \/ Jump
    \/ PlayerRender
    \/ Elapse
    \/ SpeedUpInterval
    \/ FramePlain(0)

SpecInput == InitGame /\ [][NextInput]_vars

-----------------------------------------------------------------------------
(* SpecMagnet: a run that goes on after its first entity, a magnet, with  *)
(* the player changing lanes only.                                        *)

FirstTypes == IF spawner.spawnCount = 0 THEN {"magnet"} ELSE Types

NextMagnet ==
    \/ Settled /\ PressStart
    \/ Settled /\ MoveLeft
    \/ Settled /\ MoveRight
    \/ PlayerRender
    \/ Settled /\ Elapse
    \/ Settled /\ SpeedUpInterval
    \/ Settled /\ FramePlain(MaxSpawnsMagnet)
    \/ \E type \in FirstTypes, lane \in Lanes, r \in GapDraws :
          Settled /\ FrameSpawn(type, lane, r, MaxSpawnsMagnet)
    \/ ItemPass
    \/ ItemDespawn
    \/ ItemCrash
    \/ ItemCoin
    \/ ItemChilly
    \/ ItemMagnet
    \/ ItemAward
    \/ FrameEnd
    \/ \E i \in 1..Len(timers) :
          BetweenFrames /\ Settled /\ BoostExpire(i) /\ UNCHANGED gvars
    \/ \E i \in 1..Len(timers) :
          BetweenFrames /\ Settled /\ MagnetExpire(i) /\ UNCHANGED gvars
    \/ \E i \in 1..Len(timers) :
          BetweenFrames /\ Settled /\ ShakeExpire(i) /\ UNCHANGED gvars

SpecMagnet == InitGame /\ [][NextMagnet]_vars

-----------------------------------------------------------------------------
(* Claims. *)

\* C1: while status is Playing, speed equals min(baseSpeed * 1.8, 0.6) if
\* boostActive is true and baseSpeed if it is false, after every store
\* mutation (startGame, restartGame, increaseSpeed, activateBoost, expiry).
C1_SpeedDerived ==
    status = "playing" =>
        speed = (IF boostActive
                 THEN Min((baseSpeed * 18) \div 10, MaxSpeed)
                 ELSE baseSpeed)

\* C2: in every reachable state with status GameOver, speed is exactly 0,
\* also after a boost-expiry timer, an increaseSpeed call or an
\* activateBoost call that arrives after endGame.
C2_GameOverSpeedZero == status = "gameover" => speed = 0

\* C3: endGame called while status is already GameOver changes no Session
\* field, schedules no timer and writes nothing to persistence.
C3_EndGameIdempotent ==
    [][(status = "gameover" /\ EndGame) =>
          UNCHANGED <<session, timers, stored>>]_vars

\* C4: re-triggering activateBoost (activateMagnet) while the power-up is
\* active restarts the window: a deactivation never clears the flag while
\* a later activation's own duration has not yet passed.
C4_RetriggerRestartsWindow ==
    [][\A i \in 1..Len(timers) :
          /\ (boostActive /\ BoostExpire(i)) =>
                \A j \in (i + 1)..Len(timers) :
                    timers[j].kind = "boost" => timers[j].rem = 0
          /\ (magnetActive /\ MagnetExpire(i)) =>
                \A j \in (i + 1)..Len(timers) :
                    timers[j].kind = "magnet" => timers[j].rem = 0]_vars

\* C5: in every reachable state at most one deactivation timer is pending
\* for the boost and at most one for the magnet.
C5_OneTimerPerPowerUp ==
    /\ Cardinality(Pending("boost")) <= 1
    /\ Cardinality(Pending("magnet")) <= 1

\* C6: an expiry timer scheduled before the current run began never clears
\* boostActive or magnetActive, nor overwrites speed, once the current run
\* has set the flag again: a flag set in the current run is cleared only by
\* a timer scheduled in the current run.  Stated for the flag's own timer
\* still running, where the clearing is early as well as foreign.
OwnTimerRunning(kind) ==
    \E j \in Pending(kind) : ~timers[j].old /\ timers[j].rem > 0

C6_StaleTimerHarmless ==
    [][\A i \in 1..Len(timers) :
          /\ (/\ timers[i].old
              /\ boostActive
              /\ OwnTimerRunning("boost")
              /\ BoostExpire(i)) => (boostActive' /\ speed' = speed)
          /\ (/\ timers[i].old
              /\ magnetActive
              /\ OwnTimerRunning("magnet")
              /\ MagnetExpire(i)) => magnetActive']_vars

\* C7: baseSpeed lies in [0.12, 0.4] in every reachable state and never
\* decreases, except that startGame and restartGame reset it to 0.12.
C7_BaseSpeedRange ==
    /\ [](InitialSpeed <= baseSpeed /\ baseSpeed <= MaxBaseSpeed)
    /\ [][baseSpeed' < baseSpeed =>
            /\ lastOp' \in {"startGame", "restartGame"}
            /\ baseSpeed' = InitialSpeed]_vars

\* C7 witness: increaseSpeed was called with baseSpeed already at 0.4 and
\* left it there.
C7_Witness ==
    /\ lastOp = "increaseSpeed"
    /\ ~boostActive
    /\ speed = MaxBaseSpeed
    /\ baseSpeed = MaxBaseSpeed

\* C8: activateBoost sets boostActive and speed = min(baseSpeed * 1.8, 0.6)
\* at once (0.216 at baseSpeed 0.12); its deactivation clears boostActive and
\* sets speed to the baseSpeed of that moment, raised or not since.
C8_BoostSetsAndRestoresSpeed ==
    [][/\ lastOp' = "activateBoost" =>
            /\ boostActive'
            /\ speed' = Min((baseSpeed * 18) \div 10, 6000)
            /\ (baseSpeed = 1200 => speed' = 2160)
       /\ lastOp' = "boostExpire" =>
            /\ ~boostActive'
            /\ baseSpeed' = baseSpeed
            /\ speed' = baseSpeed']_vars

\* C8 witness: a deactivation ran in a run whose baseSpeed had been raised,
\* and speed is that raised baseSpeed.
C8_Witness ==
    /\ lastOp = "boostExpire"
    /\ status = "playing"
    /\ baseSpeed > InitialSpeed
    /\ speed = baseSpeed

\* C9: activateBoost and activateMagnet called while status is not Playing
\* change no Session field.
C9_PowerUpIgnoredOutsidePlaying ==
    [][(/\ status # "playing"
        /\ \E d \in Durations : ActivateBoost(d) \/ ActivateMagnet(d))
          => UNCHANGED session]_vars

\* C10: highScore changes only at a Playing -> GameOver transition, which
\* sets it to max(score, highScore) and writes that value to persistence;
\* highScore never decreases and is at least score whenever status is
\* GameOver.
C10_HighScoreCommit ==
    /\ [][/\ highScore' # highScore =>
                (status = "playing" /\ status' = "gameover")
          /\ (status = "playing" /\ status' = "gameover") =>
                /\ highScore' = Max(score, highScore)
                /\ stored' = Item(StringOf(highScore'))
          /\ highScore' >= highScore]_vars
    /\ [](status = "gameover" => highScore >= score)

-----------------------------------------------------------------------------
(* FairGame: SpecGame in a browser that keeps running: time passes, frames *)
(* are called and run to their end, React renders what is queued.          *)

FairGame ==
    /\ SpecGame
    /\ SF_vars(Settled /\ Elapse)
    /\ SF_vars(Settled /\ FramePlain(MaxSpawns))
    /\ SF_vars(\E type \in Types, lane \in Lanes, r \in GapDraws :
                  Settled /\ FrameSpawn(type, lane, r, MaxSpawns))
    /\ WF_vars(ItemPass \/ ItemDespawn \/ FrameEnd)
    /\ WF_vars(PlayerRender)

-----------------------------------------------------------------------------
(* Claims on the obstacles and the player. *)

\* the entity whose callback is about to run (Was) and has just run (Is)
Was == items[frame.at]
Is == items'[frame.at]

InWindow(z) == 0 - COLLISION_THRESHOLD_Z < z /\ z < COLLISION_THRESHOLD_Z

\* endGame is called in this step: it alone schedules a shake reset here
EndGameCalled ==
    /\ Len(timers') = Len(timers) + 1
    /\ timers'[Len(timers')].kind = "shake"

StoreUntouched == UNCHANGED <<session, timers, stored>>

\* C11: a frame that finds an uncollected rock within |z| < 1 in the
\* player's lane while isJumping is false calls endGame: status becomes
\* GameOver, speed 0 and the rock is marked; endGame is called by nothing
\* else, and a marked rock calls nothing on later frames, in the window or
\* not: once for that collision.
C11_HazardEndsRunOnce ==
    [][/\ (/\ InItem
           /\ Was.type = "rock"
           /\ ~Was.collected
           /\ InWindow(Is.z)
           /\ Was.lane = playerLane
           /\ ~isJumping)
            => (/\ EndGameCalled
                /\ status' = "gameover"
                /\ speed' = 0
                /\ Is.collected)
       /\ EndGameCalled
            => (/\ InItem
                /\ Was.type = "rock"
                /\ ~Was.collected
                /\ Is.collected)
       /\ (InItem /\ Was.type = "rock" /\ Was.collected)
            => (~EndGameCalled /\ StoreUntouched /\ Is.collected)]_vars

\* C11 witness: a new run is on, time has passed and a frame has run in it,
\* and the rock that ended the run before is still within the window in the
\* player's lane, the player on the ground.
C11_Witness ==
    /\ status = "playing"
    /\ frame = NoFrame
    /\ sinceFrame = 0
    /\ speedUpIn # Off
    /\ speedUpIn < SpeedUpMs
    /\ ~isJumping
    /\ \E i \in 1..Len(items) :
          /\ items[i].type = "rock"
          /\ items[i].collected
          /\ InWindow(items[i].z)
          /\ items[i].lane = playerLane

\* C12: a frame that finds a rock in the window in the player's lane while
\* isJumping is true changes nothing in the store and does not mark it; a
\* rock is marked only by a frame with isJumping false; and a rock that has
\* passed the window unmarked is in the end removed by the despawn test,
\* unless the run ends first.
C12_JumpedRockPasses ==
    /\ [][InItem /\ Was.type = "rock" =>
            /\ (~Was.collected /\ isJumping)
                  => (StoreUntouched /\ ~Is.collected)
            /\ (~Was.collected /\ Is.collected) => ~isJumping
            /\ score' = score]_vars
    /\ \A id \in 1..MaxSpawns :
          (\E i \in 1..Len(items) :
              /\ items[i].id = id
              /\ items[i].type = "rock"
              /\ ~items[i].collected
              /\ items[i].z >= COLLISION_THRESHOLD_Z)
          ~> (status # "playing" \/ \A i \in 1..Len(items) : items[i].id # id)

\* C12 witness: a frame has just run the callback of a rock in the window,
\* in the player's lane, with the player in the air: the rock is unmarked
\* and the run goes on.
C12_Witness ==
    /\ frame.at = 2
    /\ status = "playing"
    /\ isJumping
    /\ items[1].type = "rock"
    /\ ~items[1].collected
    /\ InWindow(items[1].z)
    /\ items[1].lane = playerLane

\* C13: collected never reverts; a callback that touches the store marks
\* its entity, and the callback of a marked entity touches nothing, in the
\* window or not; being marked comes with +5 for a coin, with +0 for a
\* rock, and for a chilly and a magnet with the one award of 2 and of 3
\* that the same callback goes on to add.
C13_EffectAtMostOnce ==
    [][/\ \A i \in 1..Len(items) : \A j \in 1..Len(items') :
            (items'[j].id = items[i].id /\ items[i].collected)
                => items'[j].collected
       /\ InItem =>
            /\ Was.collected => (StoreUntouched /\ frame'.award = 0)
            /\ ~StoreUntouched => (~Was.collected /\ Is.collected)
            /\ (~Was.collected /\ Is.collected) =>
                  /\ Was.type = "coin" =>
                        (score' = score + 5 /\ frame'.award = 0)
                  /\ Was.type = "rock" =>
                        (score' = score /\ frame'.award = 0)
                  /\ Was.type = "chilly" =>
                        (score' = score /\ frame'.award = 2)
                  /\ Was.type = "magnet" =>
                        (score' = score /\ frame'.award = 3)
       /\ frame.award > 0 =>
            /\ score' = score + frame.award
            /\ frame'.award = 0
            /\ frame'.at = frame.at + 1
            /\ UNCHANGED items
       /\ score' > score => (frame.at > 0 /\ status' = status)]_vars

\* C13 witness: a frame has just run the callback of a magnet that an
\* earlier frame collected and that is still within the window: the magnet
\* timer has been running since, and the score is the one award.
C13_Witness ==
    /\ frame.at = 2
    /\ frame.award = 0
    /\ items[1].type = "magnet"
    /\ items[1].collected
    /\ InWindow(items[1].z)
    /\ score = MagnetAward
    /\ \E t \in 1..Len(timers) :
          timers[t].kind = "magnet" /\ timers[t].rem < MagnetMs

\* C14: an entity is marked only within |z| < 1 and either in the player's
\* lane or, being a coin, with magnetActive true; with magnetActive true an
\* uncollected coin within the window is collected whatever its lane; a
\* rock, chilly or magnet in another lane has no effect, magnet or not.
C14_MagnetPullsCoinsOnly ==
    [][InItem =>
          /\ (~Was.collected /\ Is.collected) =>
                /\ InWindow(Is.z)
                /\ \/ Was.lane = playerLane
                   \/ magnetActive /\ Was.type = "coin"
          /\ (/\ magnetActive
              /\ Was.type = "coin"
              /\ ~Was.collected
              /\ InWindow(Is.z)) => (Is.collected /\ score' = score + 5)
          /\ (Was.type # "coin" /\ Was.lane # playerLane) =>
                (StoreUntouched /\ Is.collected = Was.collected)]_vars

\* C14 witness: with the magnet active a coin has been collected in a lane
\* that is not the player's.
C14_Witness ==
    /\ magnetActive
    /\ frame.at > 0
    /\ score = MagnetAward + CoinAward
    /\ \E i \in 1..Len(items) :
          /\ items[i].type = "coin"
          /\ items[i].collected
          /\ InWindow(items[i].z)
          /\ items[i].lane # playerLane

\* C15: an uncollected coin, chilly or magnet within the window in the
\* player's lane is collected by that frame, isJumping true or false: it is
\* marked, and the coin's 5 is added, the boost resp. the magnet is
\* activated and its award is on its way.
C15_JumpCollects ==
    [][(/\ InItem
        /\ Was.type # "rock"
        /\ ~Was.collected
        /\ InWindow(Is.z)
        /\ Was.lane = playerLane) =>
          /\ Is.collected
          /\ Was.type = "coin" => score' = score + 5
          /\ Was.type = "chilly" =>
                (boostActive' /\ lastOp' = "activateBoost"
                              /\ frame'.award = 2)
          /\ Was.type = "magnet" =>
                (magnetActive' /\ lastOp' = "activateMagnet"
                               /\ frame'.award = 3)]_vars

\* C15 witness: the player is in the air and a frame has just collected a
\* magnet in the player's lane.
C15_Witness ==
    /\ isJumping
    /\ frame.at = 1
    /\ frame.award = MagnetAward
    /\ magnetActive
    /\ items[1].type = "magnet"
    /\ items[1].collected
    /\ items[1].lane = playerLane

\* C16: playerLane and the Player's laneIndex, queued or rendered, are in
\* {0, 1, 2} in every reachable state; during a run moveLeft takes lane 0
\* to 0 and any other lane down by one, moveRight takes lane 2 to 2 and
\* any other lane up by one.
C16_LaneInRange ==
    /\ [](/\ playerLane \in {0, 1, 2}
          /\ player.laneIndex \in {0, 1, 2}
          /\ shown.laneIndex \in {0, 1, 2})
    /\ [][/\ (status = "playing" /\ MoveLeft) =>
                player'.laneIndex = IF player.laneIndex = 0 THEN 0
                                    ELSE player.laneIndex - 1
          /\ (status = "playing" /\ MoveRight) =>
                player'.laneIndex = IF player.laneIndex = 2 THEN 2
                                    ELSE player.laneIndex + 1]_vars

\* C16 witness: during a run the player has reached lane 0 and the store
\* has it, so that a moveLeft now meets the clamp.
C16_Witness ==
    /\ status = "playing"
    /\ player.laneIndex = 0
    /\ shown.laneIndex = 0
    /\ playerLane = 0

\* C17: with status Idle or GameOver, moveLeft, moveRight and jump change
\* neither laneIndex nor isJumping nor the jump-start time, in the Player
\* or in the store.
C17_InputIgnoredOutsidePlaying ==
    [][(status # "playing" /\ (MoveLeft \/ MoveRight \/ Jump)) =>
          UNCHANGED <<player, shown, playerLane, isJumping,
                   audio>>]_vars

\* C17 witness: the run is over with the player off the centre lane and
\* everything rendered: a key that moved the player would show.
C17_Witness ==
    /\ status = "gameover"
    /\ frame = NoFrame
    /\ Settled
    /\ player.laneIndex = 0

\* C18: jump() called while a jump is in progress changes nothing: not
\* isJumping and not the jump-start time, also when the jump it repeats has
\* not been rendered yet.
C18_JumpIdempotent ==
    [][(player.isJumping /\ Jump) => UNCHANGED player]_vars

\* C19: restartGame sets what startGame sets, from every state: status
\* Playing, score 0, speed and baseSpeed 0.12, lane 1, every flag false,
\* highScore as it was; called right after startGame it changes no Session
\* field.
C19_RestartIsStart ==
    [][/\ lastOp' \in {"startGame", "restartGame"} =>
            session' = <<"playing", 0, 1200, 1200, 1, FALSE, FALSE,
                         highScore, FALSE, FALSE>>
       /\ (lastOp = "startGame" /\ lastOp' = "restartGame") =>
            session' = session]_vars

\* C19 witness: restartGame has run with a high score on record and a
\* timer of the run before still pending.
C19_Witness ==
    /\ lastOp = "restartGame"
    /\ highScore > 0
    /\ \E t \in 1..Len(timers) : timers[t].old /\ timers[t].kind = "boost"

\* C20: startGame can be called in every status, and leaves status
\* Playing, score 0, baseSpeed = speed = 0.12, playerLane 1, isJumping,
\* boostActive, magnetActive and screenShake false, highScore unchanged.
C20_StartGameResets ==
    /\ [](ENABLED (StartGame /\ UNCHANGED gvars))
    /\ [][lastOp' = "startGame" =>
            /\ status' = "playing"
            /\ score' = 0
            /\ baseSpeed' = 1200
            /\ speed' = 1200
            /\ playerLane' = 1
            /\ ~isJumping'
            /\ ~boostActive'
            /\ ~magnetActive'
            /\ ~screenShake'
            /\ highScore' = highScore]_vars

\* C20 witness: startGame has run right after an endGame, whose shake reset
\* has its whole delay to go, and the high score is still on record.
C20_Witness ==
    /\ lastOp = "startGame"
    /\ highScore > 0
    /\ \E t \in 1..Len(timers) :
          timers[t].kind = "shake" /\ timers[t].rem = ShakeMs

-----------------------------------------------------------------------------
(* SpecPace: the pace of a run with nobody at the keys.  The first entity  *)
(* is a rock or a coin, the later ones coins, all in the centre lane; the  *)
(* speed-up interval fires for as long as the run lasts.                   *)

\* Game's setInterval callback, every 5000 ms until it is cleared
SpeedUpFires ==
    /\ BetweenFrames
    /\ speedUpIn = 0
    /\ IncreaseSpeed
    /\ speedUpIn' = SpeedUpMs
    /\ UNCHANGED <<player, shown, items, spawner, frame, sinceFrame,
                   audio>>

PaceTypes == IF spawner.spawnCount = 0 THEN {"rock", "coin"} ELSE {"coin"}

NextPace ==
    \/ PressStart
    \/ PressRetry
    \/ Elapse
    \/ SpeedUpFires
    \/ FramePlain(MaxSpawnsPace)
    \/ \E type \in PaceTypes, r \in GapDraws :
          FrameSpawn(type, 1, r, MaxSpawnsPace)
    \/ ItemPass
    \/ ItemDespawn
    \/ ItemCrash
    \/ ItemCoin
    \/ FrameEnd
    \/ \E i \in 1..Len(timers) :
          BetweenFrames /\ ShakeExpire(i) /\ UNCHANGED gvars

SpecPace == InitGame /\ [][NextPace]_vars

\* the interval's callback runs in this step
IntervalFired == speedUpIn = 0 /\ speedUpIn' = SpeedUpMs

\* spawn() runs in this step
Spawned == spawner'.spawnCount = spawner.spawnCount + 1

\* C21: the 5-second interval is pending exactly while status is Playing:
\* armed on entering Playing, cleared on leaving it, due 5000 ms after it
\* was armed or last fired; every firing of it and every spawn that brings
\* the running spawn count to a multiple of 10 raises baseSpeed by 0.003 up
\* to 0.4, a spawn that is both gets one raise from the spawn, and nothing
\* else raises baseSpeed.
C21_TwoSpeedTriggers ==
    /\ [](speedUpIn # Off <=> status = "playing")
    /\ [][/\ (status # "playing" /\ status' = "playing")
                => speedUpIn' = 5000
          /\ IntervalFired =>
                /\ status = "playing"
                /\ baseSpeed' = Min(baseSpeed + 30, 4000)
          /\ (Spawned /\ spawner'.spawnCount % 10 = 0) =>
                /\ status = "playing"
                /\ baseSpeed' = Min(baseSpeed + 30, 4000)
          /\ baseSpeed' > baseSpeed =>
                \/ IntervalFired
                \/ Spawned /\ spawner'.spawnCount % 10 = 0
          /\ (speedUpIn > 0 /\ speedUpIn' # Off /\ ~IntervalFired
                /\ status = "playing")
                => speedUpIn' \in {speedUpIn, speedUpIn - FrameMs}]_vars

\* C21 witness: the tenth spawn has just raised baseSpeed in a run in which
\* the interval had raised it before, and the interval is still pending.
C21_Witness ==
    /\ status = "playing"
    /\ lastOp = "increaseSpeed"
    /\ spawner.spawnCount = 10
    /\ sinceFrame = 0
    /\ items[Len(items)].id = 10
    /\ items[Len(items)].z = SPAWN_DISTANCE
    /\ baseSpeed >= InitialSpeed + 3 * SpeedStep
    /\ speedUpIn > 0
    /\ speedUpIn < SpeedUpMs

\* C22: score is a non-negative integer in every reachable state; a step
\* that lowers it is a startGame or a restartGame and leaves it 0; in
\* particular no other step from Playing to Playing lowers it.
C22_ScoreMonotone ==
    /\ [](score \in Nat)
    /\ [][/\ score' < score =>
                (lastOp' \in {"startGame", "restartGame"} /\ score' = 0)
          /\ (/\ status = "playing"
              /\ status' = "playing"
              /\ lastOp' \notin {"startGame", "restartGame"})
                => score' >= score]_vars

\* C22 witness: incrementScore has just raised the score of a run.
C22_Witness ==
    /\ status = "playing"
    /\ lastOp = "incrementScore"
    /\ score > 0

\* C23: status is one of idle, playing, gameover, and idle at the start;
\* from gameover every step but startGame and restartGame leaves gameover,
\* and those two leave playing, from any status; a step from playing to
\* gameover is an endGame, and no step leads back to idle.
C23_StatusMachine ==
    /\ status = "idle"
    /\ [](status \in {"idle", "playing", "gameover"})
    /\ [][/\ (status = "gameover"
                /\ lastOp' \notin {"startGame", "restartGame"})
                => status' = "gameover"
          /\ lastOp' \in {"startGame", "restartGame"} => status' = "playing"
          /\ (status = "playing" /\ status' = "gameover")
                => lastOp' = "endGame"
          /\ (status = "playing" /\ lastOp' # "endGame")
                => status' = "playing"
          /\ status' = "idle" => status = "idle"]_vars

\* C23 witness: a boost's deactivation has run after the run was over, and
\* the status is still gameover.
C23_Witness ==
    /\ status = "gameover"
    /\ lastOp = "boostExpire"

\* C24: the frame that collects a chilly sets boostActive and schedules its
\* deactivation 5000 ms ahead, so that the boost lasts 5 seconds; the flag
\* is cleared by that deactivation, or else by a new run.
C24_BoostLastsFiveSeconds ==
    [][/\ (InItem /\ Was.type = "chilly" /\ ~Was.collected /\ Is.collected)
            => (/\ boostActive'
                /\ Len(timers') = Len(timers) + 1
                /\ timers'[Len(timers')].kind = "boost"
                /\ timers'[Len(timers')].rem = 5000)
       /\ (boostActive /\ ~boostActive')
            => lastOp' \in {"boostExpire", "startGame", "restartGame"}]_vars

\* C25: in every reachable state speed is at most 0.6, and at most 0.4
\* when boostActive is false.
C25_SpeedCaps ==
    /\ speed <= 6000
    /\ ~boostActive => speed <= 4000

\* C25 witness: a boost was activated with baseSpeed at its clamp, where
\* 1.8 times baseSpeed is 0.72, and speed is 0.6.
C25_Witness ==
    /\ boostActive
    /\ lastOp = "activateBoost"
    /\ baseSpeed = MaxBaseSpeed
    /\ speed = MaxSpeed

-----------------------------------------------------------------------------
(* SpecShake: the operations that write screenShake, called at any moment  *)
(* on the frame clock.                                                     *)

NextShake ==
    \/ StartGame /\ UNCHANGED gvars
    \/ BetweenFrames /\ Room /\ EndGame /\ UNCHANGED gvars
    \/ BetweenFrames /\ Room /\ TriggerScreenShake /\ UNCHANGED gvars
    \/ \E i \in 1..Len(timers) :
          BetweenFrames /\ ShakeExpire(i) /\ UNCHANGED gvars
    \/ Elapse
    \/ FramePlain(0)

SpecShake == InitGame /\ [][NextShake]_vars

\* C26: endGame and triggerScreenShake set screenShake and schedule its
\* reset 500 ms ahead; until the reset a trigger scheduled in this run is
\* due, screenShake is true, whatever earlier trigger's reset runs in
\* between; and screenShake is never true without a reset pending.
C26_ShakeWindow ==
    /\ [][(/\ Len(timers') = Len(timers) + 1
            /\ lastOp' \in {"endGame", "triggerScreenShake"}) =>
            /\ screenShake'
            /\ timers'[Len(timers')].kind = "shake"
            /\ timers'[Len(timers')].rem = 500]_vars
    /\ [](\A j \in 1..Len(timers) :
            (timers[j].kind = "shake" /\ ~timers[j].old /\ timers[j].rem > 0)
                => screenShake)
    /\ [](screenShake => \E j \in 1..Len(timers) : timers[j].kind = "shake")

-----------------------------------------------------------------------------
(* SpecStored: the store driven as under SpecApp, constructed over an item *)
(* that holds a score, nothing, or some other text.                        *)

InitStored ==
    InitFrom(StoredAtStart \cup StoredOtherwise) /\ audio = Mounted(TRUE)

SpecStored == InitStored /\ [][NextApp]_vars

\* the text is the decimal form of a natural number
IsNatural(text) ==
    /\ Len(text) > 0
    /\ \A k \in 1..Len(text) :
          text[k] \in {"0", "1", "2", "3", "4", "5", "6", "7", "8", "9"}

\* C27: constructed over a missing item or one that does not hold an
\* integer, the store has highScore 0; highScore is an integer ever after,
\* and every endGame leaves it max(score, highScore).
C27_ReadFailureFallsBack ==
    /\ (~stored.has \/ ~IsNatural(stored.text)) => highScore = 0
    /\ [](highScore \in Nat)
    /\ [][(Len(timers') = Len(timers) + 1 /\ lastOp' = "endGame") =>
            /\ highScore' \in Nat
            /\ highScore' = IF score >= highScore THEN score ELSE highScore
         ]_vars

\* a frame begins in this step: its delta is the time since the last one
TickBegins == sinceFrame > 0 /\ sinceFrame' = 0

\* C28: a tick that begins while status is not Playing leaves every entity
\* as it was (position, collected, mounted), spawns none and leaves the
\* spawn countdown and count alone: no callback of it gets to act.
C28_NoTickOutsidePlaying ==
    [][(status # "playing" /\ TickBegins) =>
          /\ items' = items
          /\ spawner' = spawner
          /\ frame' = NoFrame]_vars

\* C28 witness: the run has been over for longer than the shake lasts, with
\* ticks going on; several entities are still on the track, on their way,
\* and the spawn countdown is part way down.
C28_Witness ==
    /\ status = "gameover"
    /\ frame = NoFrame
    /\ sinceFrame = 0
    /\ timers = <<>>
    /\ Len(items) >= 2
    /\ \E i \in 1..Len(items) : ~items[i].collected
    /\ spawner.spawnCount < MaxSpawnsPace
    /\ spawner.nextSpawnTime > 0
    /\ spawner.nextSpawnTime < GapBaseMs

\* the entities on the list, by id
IdsOf(list) == {list[i].id : i \in 1..Len(list)}

\* C29: an entity comes onto the list at z = -60 under an id never used
\* before; its z never decreases; the callback that takes it past z = 8
\* removes it and does nothing else (store and collected untouched); no
\* entity past z = 8 is on the list once a tick is over; and an id that
\* has left the list does not come back.
C29_DespawnPastEight ==
    /\ [](frame = NoFrame =>
            \A i \in 1..Len(items) : items[i].z <= 80000 /\ ~items[i].gone)
    /\ [][/\ \A j \in 1..Len(items') :
                items'[j].id \notin IdsOf(items) =>
                    /\ items'[j].z = 0 - 600000
                    /\ items'[j].id > spawner.spawnCount
                    /\ items'[j].id = spawner'.spawnCount
          /\ spawner'.spawnCount >= spawner.spawnCount
          /\ \A i \in 1..Len(items) : \A j \in 1..Len(items') :
                items'[j].id = items[i].id => items'[j].z >= items[i].z
          /\ \A i \in 1..Len(items) :
                items[i].id \notin IdsOf(items') => items[i].z > 80000
          /\ (InItem /\ Is.z > 80000) =>
                /\ Is.gone
                /\ Is.collected = Was.collected
                /\ StoreUntouched]_vars

\* C29 witness: a frame has just taken an entity past z = 8 and removed it,
\* with a later entity still on the list.
C29_Witness ==
    /\ frame.at >= 2
    /\ Len(items) >= 2
    /\ items[frame.at - 1].gone
    /\ items[frame.at - 1].z > DESPAWN_DISTANCE
    /\ status = "playing"

\* C30: a tick that begins in Playing takes its delta off the countdown;
\* it spawns, one entity, exactly when the countdown is then <= 0, and sets
\* the countdown to a gap between 1.5 s and 3 s divided by speed / 0.12 (in
\* whole ms: (1500 + 1500 r) * 0.12 / speed for the draw r), which is
\* positive; nothing else adds an entity.  Stated for the spawns whose
\* countdown is followed: all but the last explored.
C30_SpawnCountdown ==
    [][/\ (/\ status = "playing"
           /\ TickBegins
           /\ spawner.spawnCount < MaxSpawnsPace) =>
            IF spawner.nextSpawnTime - sinceFrame <= 0
            THEN /\ Spawned
                 /\ Len(items') = Len(items) + 1
                 /\ spawner'.spawnCount < MaxSpawnsPace =>
                      /\ spawner'.nextSpawnTime > 0
                      /\ (spawner'.nextSpawnTime + 1) * speed > 1500 * 1200
                      /\ spawner'.nextSpawnTime * speed < 3000 * 1200
                      /\ \E r \in GapDraws :
                            spawner'.nextSpawnTime =
                                ((1500 + (1500 * r) \div 1000) * 1200)
                                    \div speed
            ELSE /\ items' = items
                 /\ spawner'.spawnCount = spawner.spawnCount
                 /\ spawner'.nextSpawnTime = spawner.nextSpawnTime - sinceFrame
       /\ Len(items') <= Len(items) + 1
       /\ (Len(items') > Len(items) \/ Spawned) =>
            (status = "playing" /\ TickBegins /\ Spawned)]_vars

\* C30 witness: a tick has just spawned at a speed above 0.12 and set a
\* countdown shorter than the shortest one at 0.12.
C30_Witness ==
    /\ status = "playing"
    /\ sinceFrame = 0
    /\ speed > InitialSpeed
    /\ spawner.spawnCount < MaxSpawnsPace
    /\ items[Len(items)].z = SPAWN_DISTANCE
    /\ items[Len(items)].id = spawner.spawnCount
    /\ spawner.nextSpawnTime > 0
    /\ spawner.nextSpawnTime < GapBaseMs

\* C31, as claimed: right after an increaseSpeed called with boostActive
\* false and baseSpeed < 0.4, baseSpeed has grown by 0.003 and speed is the
\* baseSpeed from before the call; the first increaseSpeed of a run so
\* leaves speed at 0.12.
C31_IncreaseGrowsByStep ==
    [][/\ (lastOp' = "increaseSpeed" /\ ~boostActive /\ baseSpeed < 4000) =>
            /\ baseSpeed' = baseSpeed + 30
            /\ speed' = baseSpeed
       /\ (/\ lastOp \in {"startGame", "restartGame"}
           /\ lastOp' = "increaseSpeed") =>
            (speed' = 1200 /\ baseSpeed' = 1230)]_vars

\* C31, amended: right after an increaseSpeed called with boostActive false
\* and baseSpeed < 0.4, baseSpeed has grown by 0.003, or to 0.4 from above
\* 0.397, and speed is the baseSpeed from before the call; the first
\* increaseSpeed of a run so leaves speed at 0.12.
C31_IncreaseLagsSpeed ==
    [][/\ (lastOp' = "increaseSpeed" /\ ~boostActive /\ baseSpeed < 4000) =>
            /\ baseSpeed' = IF baseSpeed <= 3970 THEN baseSpeed + 30 ELSE 4000
            /\ baseSpeed' > baseSpeed
            /\ speed' = baseSpeed
       /\ (/\ lastOp \in {"startGame", "restartGame"}
           /\ lastOp' = "increaseSpeed") =>
            (speed' = 1200 /\ baseSpeed' = 1230)]_vars

\* C31 witness: increaseSpeed has run at baseSpeed 0.399 without a boost:
\* baseSpeed is 0.4 and speed 0.399.
C31_Witness ==
    /\ lastOp = "increaseSpeed"
    /\ ~boostActive
    /\ status = "playing"
    /\ baseSpeed = MaxBaseSpeed
    /\ speed = MaxBaseSpeed - 10

\* C32: once status has left idle it is never idle again; while it is idle
\* no entity is on the list and the spawn count is 0, so that the tick's
\* idle branch has nothing to clear; the spawn count is never set back and
\* no tick empties a list that held an entity.
C32_IdleNeverAgain ==
    /\ [](status = "idle" => (items = <<>> /\ spawner.spawnCount = 0))
    /\ [][/\ status # "idle" => status' # "idle"
          /\ spawner'.spawnCount >= spawner.spawnCount
          /\ (TickBegins /\ items # <<>>) => items' # <<>>]_vars

\* C32 witness: a second run is under way, a tick of it has run, and the
\* entities and the spawn count of the first run are still there.
C32_Witness ==
    /\ status = "playing"
    /\ lastOp = "restartGame"
    /\ frame = NoFrame
    /\ sinceFrame = 0
    /\ speedUpIn < SpeedUpMs
    /\ Len(items) >= 2
    /\ spawner.spawnCount >= 2

\* C33: the step from gameover to playing leaves the list of entities, with
\* every z and collected flag, and the spawn countdown and count as they
\* were; the entities go on from there in the new run, and the spawn that
\* brings the count, run on across runs, to a multiple of 10 raises the
\* speed.
C33_RestartKeepsEntities ==
    [][/\ (status = "gameover" /\ status' = "playing") =>
            /\ items' = items
            /\ spawner' = spawner
       /\ (stored.has /\ Spawned) =>
            /\ spawner'.spawnCount > 1
            /\ spawner'.spawnCount % 10 = 0 =>
                  (lastOp' = "increaseSpeed"
                      /\ baseSpeed' = Min(baseSpeed + 30, 4000))]_vars

\* C33 witness: a run that followed a crash has made the tenth spawn since
\* the page was loaded, and the speed was raised for it.
C33_Witness ==
    /\ status = "playing"
    /\ stored.has
    /\ spawner.spawnCount = 10
    /\ lastOp = "increaseSpeed"
    /\ sinceFrame = 0
    /\ items[Len(items)].id = 10
    /\ items[Len(items)].z = SPAWN_DISTANCE

-----------------------------------------------------------------------------
(* SpecSlow: a rock comes down the player's lane with nobody at the keys,  *)
(* on a page whose frames come late: a slow device, a tab in the           *)
(* background.  The frame clock hands the callbacks the full time since    *)
(* the last frame as delta.                                                *)

\* FrameMs of time passes, as under Elapse, with frames up to MaxDeltaSlow
\* steps apart
ElapseSlow ==
    /\ BetweenFrames
    /\ sinceFrame < MaxDeltaSlow * FrameMs
    /\ \A i \in 1..Len(timers) : timers[i].rem >= FrameMs
    /\ speedUpIn # 0
    /\ timers' = [i \in 1..Len(timers) |->
                    [timers[i] EXCEPT !.rem = @ - FrameMs]]
    /\ sinceFrame' = sinceFrame + FrameMs
    /\ speedUpIn' = IF speedUpIn = Off THEN Off ELSE speedUpIn - FrameMs
    /\ player' = [player EXCEPT !.sinceJump = Min(@ + FrameMs, JumpCap)]
    /\ UNCHANGED <<session, stored, lastOp, shown, items, spawner, frame,
                   audio>>

NextSlow ==
    \/ PressStart
    \/ PressRetry
    \/ ElapseSlow
    \/ SpeedUpFires
    \/ FramePlain(1)
    \/ \E r \in GapDraws : FrameSpawn("rock", 1, r, 1)
    \/ ItemPass
    \/ ItemDespawn
    \/ ItemCrash
    \/ FrameEnd
    \/ \E i \in 1..Len(timers) :
          BetweenFrames /\ ShakeExpire(i) /\ UNCHANGED gvars

SpecSlow == InitGame /\ [][NextSlow]_vars

\* C34: with the player on the ground in the rock's lane throughout, as
\* under SpecSlow, a rock does not get past the collision window without
\* having ended the run: an unmarked rock in the player's lane has z < 1,
\* whatever the deltas of the ticks were.
C34_NoTunnelling ==
    \A i \in 1..Len(items) :
        (/\ items[i].type = "rock"
         /\ items[i].lane = playerLane
         /\ ~isJumping
         /\ ~items[i].collected) => items[i].z < 10000

-----------------------------------------------------------------------------
(* SpecCrowd: a run of three entities, a chilly down the player's lane     *)
(* first and the others in that lane or the one to its left, with nobody   *)
(* at the keys but for the retry button: boosts, the 5 s speed-ups and     *)
(* restarts change the speed between and after spawns.                     *)

CrowdTypes == IF spawner.spawnCount = 0 THEN {"chilly"} ELSE {"rock", "coin"}

CrowdLanes == IF spawner.spawnCount = 0 THEN {1} ELSE {0, 1}

NextCrowd ==
    \/ PressStart
    \/ PressRetry
    \/ Elapse
    \/ SpeedUpInterval
    \/ FramePlain(MaxSpawnsCrowd)
    \/ \E type \in CrowdTypes, lane \in CrowdLanes, r \in GapDraws :
          FrameSpawn(type, lane, r, MaxSpawnsCrowd)
    \/ ItemPass
    \/ ItemDespawn
    \/ ItemCrash
    \/ ItemCoin
    \/ ItemChilly
    \/ ItemAward
    \/ FrameEnd
    \/ \E i \in 1..Len(timers) :
          BetweenFrames /\ BoostExpire(i) /\ UNCHANGED gvars
    \/ \E i \in 1..Len(timers) :
          BetweenFrames /\ ShakeExpire(i) /\ UNCHANGED gvars

SpecCrowd == InitGame /\ [][NextCrowd]_vars

\* the entities whose hit test is still armed and whose z is in the window
ArmedInWindow ==
    {i \in 1..Len(items) : ~items[i].collected /\ InWindow(items[i].z)}

-----------------------------------------------------------------------------
(* SpecJump: a rock comes down the player's lane and the player's only     *)
(* key is the jump; React renders Player before the next task.             *)

NextJump ==
    \/ Settled /\ PressStart
    \/ Settled /\ PressRetry
    \/ Settled /\ Jump
    \/ PlayerRender
    \/ Settled /\ Elapse
    \/ Settled /\ SpeedUpFires
    \/ Settled /\ FramePlain(1)
    \/ \E r \in GapDraws : Settled /\ FrameSpawn("rock", 1, r, 1)
    \/ ItemPass
    \/ ItemDespawn
    \/ ItemCrash
    \/ FrameEnd
    \/ \E i \in 1..Len(timers) :
          BetweenFrames /\ Settled /\ ShakeExpire(i) /\ UNCHANGED gvars

SpecJump == InitGame /\ [][NextJump]_vars

\* C36: a rock the player is jumping over stays armed: the callback of an
\* unmarked rock in the player's lane that reads isJumping true neither
\* marks it nor calls endGame, and the callback that reads isJumping false
\* (the jump is over) with the rock still within |z| < 1 calls endGame on
\* that tick and marks the rock.
C36_HazardStaysArmed ==
    [][(/\ InItem
        /\ Was.type = "rock"
        /\ ~Was.collected
        /\ Was.lane = playerLane) =>
          /\ isJumping => (~Is.collected /\ ~EndGameCalled
                           /\ status' = status)
          /\ (~isJumping /\ InWindow(Is.z)) =>
                (EndGameCalled /\ Is.collected /\ status' = "gameover")]_vars

\* C36 witness: the rock was inside the window on the last tick, unmarked
\* because the player was in the air; the jump is over and the rock's
\* callback is about to move it to a z still inside the window.
C36_Witness ==
    /\ InItem
    /\ status = "playing"
    /\ Current.type = "rock"
    /\ Current.lane = playerLane
    /\ ~Current.collected
    /\ InWindow(Current.z)
    /\ InWindow(Moved(Current.z))
    /\ ~isJumping
    /\ player.sinceJump >= JUMP_DURATION

-----------------------------------------------------------------------------
(* SpecCalls: the store's startGame, restartGame and endGame called in any *)
(* status, as the store allows, beside the player's keys.  Player's reset  *)
(* effect and Game's interval effect depend on status: they run when a     *)
(* call changes it, and not otherwise.                                     *)

StatusTurnsPlaying == status # "playing"

\* startGame() in any status
CallStart ==
    /\ BetweenFrames
    /\ StartGame
    /\ player' = IF StatusTurnsPlaying THEN ResetPlayer ELSE player
    /\ speedUpIn' = IF StatusTurnsPlaying THEN SpeedUpMs ELSE speedUpIn
    /\ UNCHANGED <<shown, items, spawner, frame, sinceFrame,
                   audio>>

\* restartGame() in any status
CallRestart ==
    /\ BetweenFrames
    /\ RestartGame
    /\ player' = IF StatusTurnsPlaying THEN ResetPlayer ELSE player
    /\ speedUpIn' = IF StatusTurnsPlaying THEN SpeedUpMs ELSE speedUpIn
    /\ UNCHANGED <<shown, items, spawner, frame, sinceFrame,
                   audio>>

\* endGame() in any status; the interval effect cleans up
CallEnd ==
    /\ BetweenFrames
    /\ Room
    /\ EndGame
    /\ speedUpIn' = Off
    /\ UNCHANGED <<player, shown, items, spawner, frame, sinceFrame,
                   audio>>

NextCalls ==
    \/ Settled /\ CallStart
    \/ Settled /\ CallRestart
    \/ Settled /\ CallEnd
    \/ Settled /\ MoveLeft
    \/ Settled /\ MoveRight
    \/ Settled /\ Jump
    \/ PlayerRender
    \/ Settled /\ Elapse
    \/ Settled /\ SpeedUpInterval
    \/ Settled /\ FramePlain(0)
    \/ \E i \in 1..Len(timers) :
          BetweenFrames /\ Settled /\ ShakeExpire(i) /\ UNCHANGED gvars

SpecCalls == InitGame /\ [][NextCalls]_vars

\* C37: whenever Player's effects have settled, the store's playerLane and
\* isJumping equal Player's laneIndex and isJumping, after any sequence of
\* moves, jumps, jump completions and startGame, restartGame and endGame
\* calls, those made while the status is already playing included.
C37_StoreMirrorsPlayer ==
    Settled => /\ playerLane = player.laneIndex
               /\ isJumping = player.isJumping

-----------------------------------------------------------------------------
(* FairStore: the open store on an event loop that keeps running: time     *)
(* passes, and a timer that is due fires.                                  *)

FairStore ==
    /\ Spec
    /\ WF_vars(Tick /\ UNCHANGED gvars)
    /\ WF_vars(\E i \in 1..Len(timers) : BoostExpire(i) /\ UNCHANGED gvars)
    /\ WF_vars(\E i \in 1..Len(timers) : MagnetExpire(i) /\ UNCHANGED gvars)
    /\ WF_vars(\E i \in 1..Len(timers) : ShakeExpire(i) /\ UNCHANGED gvars)

\* C38: power-ups always expire: with timers firing, whenever boostActive
\* is true it is false again later, and so is magnetActive, in every
\* status and whatever activations, restarts and endGame calls come
\* between.
C38_PowerUpsExpire ==
    /\ boostActive ~> ~boostActive
    /\ magnetActive ~> ~magnetActive

\* C38 witness: a boost timer has just fired after the run ended, and the
\* boost is off while a magnet activated later is still on.
C38_Witness ==
    /\ lastOp = "boostExpire"
    /\ status = "gameover"
    /\ ~boostActive
    /\ magnetActive

-----------------------------------------------------------------------------
(* FairCrowd: SpecCrowd on a page that keeps ticking: time passes, frames  *)
(* come and run their callbacks, timers and the interval fire.             *)

FairCrowd ==
    /\ SpecCrowd
    /\ WF_vars(Elapse)
    /\ WF_vars(SpeedUpInterval)
    /\ WF_vars(FramePlain(MaxSpawnsCrowd))
    /\ WF_vars(\E type \in CrowdTypes, lane \in CrowdLanes, r \in GapDraws :
                  FrameSpawn(type, lane, r, MaxSpawnsCrowd))
    /\ WF_vars(ItemPass \/ ItemDespawn \/ ItemCrash \/ ItemCoin
                  \/ ItemChilly \/ ItemAward \/ FrameEnd)
    /\ WF_vars(\E i \in 1..Len(timers) :
                  BetweenFrames /\ BoostExpire(i) /\ UNCHANGED gvars)
    /\ WF_vars(\E i \in 1..Len(timers) :
                  BetweenFrames /\ ShakeExpire(i) /\ UNCHANGED gvars)

\* C39: with the page ticking and the status staying playing, every entity
\* in the list is removed from it in the end (speed is at least 0.12 in
\* Playing, so z passes 8), and as long as the spawner is followed a new
\* entity is spawned in the end.
C39_EntitiesLeave ==
    /\ [](status = "playing" => speed >= InitialSpeed)
    /\ \A id \in 1..MaxSpawnsCrowd :
          (status = "playing" /\ id \in IdsOf(items))
             ~> (id \notin IdsOf(items) \/ status # "playing")
    /\ \A n \in 0..(MaxSpawnsCrowd - 1) :
          (status = "playing" /\ spawner.spawnCount = n)
             ~> (spawner.spawnCount > n \/ status # "playing")

\* C39 witness: in a run that goes on, the first entity has left the list
\* and a later one is in it.
C39_Witness ==
    /\ status = "playing"
    /\ 1 \notin IdsOf(items)
    /\ 2 \in IdsOf(items)

-----------------------------------------------------------------------------
(* SpecAudio: the background music.  audioController is one object: muted, *)
(* ac (the AudioContext, null if its construction threw) and beatTimer,    *)
(* the id of the beat interval or null, held as 0.  live is the set of     *)
(* intervals set and not cleared.  useAudio's effect runs after the render *)
(* that follows a status change, so store calls may come before it; the M  *)
(* button calls toggleMute at any time.                                    *)

\* window.setInterval: an id that no live interval has, never 0
FreshTimer(a) ==
    CHOOSE id \in 1..(Cardinality(a.live) + 1) : id \notin a.live

\* stopMusic(); bgMusic is never assigned
StopMusic(a) ==
    IF a.beatTimer # 0
    THEN [a EXCEPT !.live = @ \ {a.beatTimer}, !.beatTimer = 0]
    ELSE a

\* if (!this.ac || !this.bgGain || this.beatTimer) return; setInterval
StartProceduralBGM(a) ==
    IF ~a.ac \/ a.beatTimer # 0
    THEN a
    ELSE [a EXCEPT !.beatTimer = FreshTimer(a),
                   !.live = @ \cup {FreshTimer(a)}]

\* a faulty startMusic: muted is not tested
StartMusicMuted(a) == StartProceduralBGM(a)

\* startMusic()
StartMusic(a) == IF a.muted THEN a ELSE StartProceduralBGM(a)

Flipped(a) == [a EXCEPT !.muted = ~@]

\* toggleMute()
ToggleMute ==
    /\ audio' = IF Flipped(audio).muted
                THEN StopMusic(Flipped(audio))
                ELSE Flipped(audio)
    /\ UNCHANGED <<session, timers, stored, lastOp, player, shown, items,
                   spawner, frame, sinceFrame, speedUpIn>>

\* what useAudio's effect does with the status it finds
Handled(a) ==
    IF status = "playing" THEN StartMusic(a) ELSE StopMusic(a)

\* useAudio's effect on [status]: the status differs from prevStatus
StatusEffect ==
    /\ audio.prevStatus # status
    /\ audio' = [Handled(audio) EXCEPT !.prevStatus = status]
    /\ UNCHANGED <<session, timers, stored, lastOp, player, shown, items,
                   spawner, frame, sinceFrame, speedUpIn>>

InitAudio ==
    /\ InitFrom({NoItem})
    /\ audio \in {Mounted(context) : context \in BOOLEAN}

NextAudio ==
    \/ StartGame /\ UNCHANGED gvars
    \/ RestartGame /\ UNCHANGED gvars
    \/ Room /\ EndGame /\ UNCHANGED gvars
    \/ \E i \in 1..Len(timers) : ShakeExpire(i) /\ UNCHANGED gvars
    \/ Tick /\ UNCHANGED gvars
    \/ StatusEffect
    \/ ToggleMute

SpecAudio == InitAudio /\ [][NextAudio]_vars

\* C40: at most one beat interval is live at any time, none while the
\* audio is muted and none once useAudio's effect has handled a change to
\* gameover, whatever the order of toggleMute, startGame, endGame and
\* restartGame; a toggleMute that unmutes starts no interval.
C40_OneBeatTimer ==
    /\ [](/\ Cardinality(audio.live) <= 1
          /\ audio.muted => audio.live = {}
          /\ audio.prevStatus = "gameover" => audio.live = {})
    /\ [][(audio.muted /\ ~audio'.muted) => audio'.live = {}]_vars

\* C40 witness: the effect has handled the change to playing, the audio
\* is not muted and an AudioContext exists, and yet no interval is live:
\* the music was muted away, or its start refused, and unmuting did not
\* bring it back.
C40_Witness ==
    /\ status = "playing"
    /\ audio.prevStatus = "playing"
    /\ audio.ac
    /\ ~audio.muted
    /\ audio.live = {}

=============================================================================
